---- MODULE Spec2Model ----
(***************************************************************************)
(* A model of the sysfsGPIO library (src/sysfsGPIO.go): GPIO pins opened   *)
(* through sysfs, registered with one process-wide epoll instance, an      *)
(* interrupt goroutine (isr) that turns epoll readiness reports into       *)
(* InterruptData on a buffered channel, and a SIGINT handler that releases *)
(* every pin of fileDescriptorMap before os.Exit.                          *)
(*                                                                         *)
(* The kernel side (sysfs gpio files, the open file table, epoll) is the   *)
(* environment: it is modelled by the record `kernel`.  The Go side is     *)
(* modelled statement by statement where goroutines can interleave.        *)
(***************************************************************************)
EXTENDS Integers, Sequences, FiniteSets, TLC

(* ------------------------------ bounds --------------------------------- *)
\* IOPin objects InitPin may create in one behaviour
MaxPins == 2
\* readiness reports the kernel generates in one behaviour (Spec)
MaxReports == 2
\* readiness reports the kernel generates in one behaviour (FullSpec)
FullReports == 34
\* readiness reports the kernel generates in one behaviour (BatchSpec)
BatchReports == 4

(* ------------------------- program constants --------------------------- *)
MaxPollEvents == 32
\* the descriptor EpollCreate1 returns in init(); value files come after it
EpollFd == 3
\* what a failed EpollCreate1 / EpollWait returns, and os.File.Fd() after Close
Invalid == -1
\* the nil *IOPin a map miss yields
Nil == 0
\* byte read from the value file for a low line: the character '0'
AsciiZero == 48

Tasks == {"main", "aux"}
GPIONums == {2, 26}
Edges == {"rising", "falling", "both", "none"}
EdgeInputs == Edges \cup {"level"}
DirInputs == {"in", "out", "up"}
FdSpace == (EpollFd + 1) .. (EpollFd + MaxPins)

VARIABLES
    pins,               \* heap of IOPin structs, indexed by object identity
    fileDescriptorMap,  \* fd -> IOPin identity
    epollFd,            \* epollData.fd
    epollEvent,         \* epollData.event.Fd, the shared scratch record
    epollEvents,        \* epollData.events, as far as it has been filled
    kernel,             \* sysfs gpio state, open files, epoll interest/ready
    interruptStream,    \* the buffered channel of InterruptData
    router,             \* the isr goroutine: pc and locals
    caller,             \* caller goroutines: pc and locals per task
    lastCall,           \* what the last completed API call did and returned
    handler,            \* the SIGINT goroutine: pc, keys and pins visited
    proc,               \* "running" | "panicked" | "exited"
    released,           \* history: pins ReleasePin has been invoked on
    nReports            \* readiness reports generated so far

vars == <<pins, fileDescriptorMap, epollFd, epollEvent, epollEvents, kernel,
          interruptStream, router, caller, lastCall, handler, proc, released,
          nReports>>

(* ------------------------------ helpers -------------------------------- *)
Remove(f, k) == [x \in DOMAIN f \ {k} |-> f[x]]

Put(f, k, v) == [x \in DOMAIN f \cup {k} |-> IF x = k THEN v ELSE f[x]]

RECURSIVE Without(_, _)
Without(s, x) ==
    IF s = <<>> THEN <<>>
    ELSE IF Head(s) = x THEN Without(Tail(s), x)
    ELSE <<Head(s)>> \o Without(Tail(s), x)

InSeq(s, x) == \E i \in 1..Len(s) : s[i] = x

PinIds == 1..Len(pins)

(* --------------------------- kernel (sysfs) ---------------------------- *)
\* /sys/class/gpio/export <- g
KExport(k, g) ==
    [k EXCEPT !.exported = @ \cup {g},
              !.direction = [@ EXCEPT ![g] = "in"],
              !.edge = [@ EXCEPT ![g] = "none"]]

\* /sys/class/gpio/unexport <- g: the gpioN directory goes away, files still
\* open on it are orphaned
KUnexport(k, g) ==
    LET orphan == {f \in DOMAIN k.files : k.files[f].gpio = g} IN
    [k EXCEPT !.exported = @ \ {g},
              !.direction = [@ EXCEPT ![g] = "in"],
              !.edge = [@ EXCEPT ![g] = "none"],
              !.files = [f \in DOMAIN @ |->
                            IF f \in orphan THEN [@[f] EXCEPT !.stale = TRUE]
                            ELSE @[f]]]

\* /sys/class/gpio/gpioN/direction <- d; "out" drives the line low
KDirection(k, g, d) ==
    [k EXCEPT !.direction = [@ EXCEPT ![g] = d],
              !.value = [@ EXCEPT ![g] = IF d = "out" THEN 0 ELSE @]]

\* /sys/class/gpio/gpioN/edge <- e
KEdge(k, g, e) == [k EXCEPT !.edge = [@ EXCEPT ![g] = e]]

LowestFreeFd(k) ==
    CHOOSE f \in FdSpace :
        /\ f \notin DOMAIN k.files
        /\ \A h \in FdSpace : h < f => h \in DOMAIN k.files

\* open(/sys/class/gpio/gpioN/value)
KOpen(k, g, rw) ==
    [k EXCEPT !.files = Put(@, LowestFreeFd(k), [gpio |-> g, rw |-> rw, stale |-> FALSE])]

\* close(fd): the descriptor is freed, epoll forgets it
KClose(k, fd) ==
    [k EXCEPT !.files = Remove(@, fd),
              !.interest = Remove(@, fd),
              !.ready = Without(@, fd)]

\* the byte a read of the value file returns: '0' or '1'
KValueByte(k, fd) == AsciiZero + k.value[k.files[fd].gpio]

\* a read or write through fd reaches the gpio's value attribute
KUsable(k, fd) ==
    /\ fd \in DOMAIN k.files
    /\ ~k.files[fd].stale
    /\ k.files[fd].gpio \in k.exported

(* ------------------------------- init() -------------------------------- *)
IdleCaller == [pc |-> "idle", pin |-> Nil]

\* op: the call; err: it returned a non-nil error; ret: the int it returned;
\* accessed: it issued an OS call on the pin's value or edge file; released:
\* ReleasePin or the shutdown walk had been run on the pin before the call
NoCall ==
    [op |-> "none", err |-> FALSE, ret |-> 0, accessed |-> FALSE, released |-> FALSE]

\* the router between two dispatches: the loop's locals hold their zero values
RouterAt(pc, n, ev) ==
    [pc |-> pc, numEvents |-> n, ev |-> ev, ioPin |-> Nil, edge |-> "",
     stateString |-> "", stateInt |-> 0, didRead |-> FALSE]

KernelInit ==
    [exported |-> {},
     direction |-> [g \in GPIONums |-> "in"],
     edge |-> [g \in GPIONums |-> "none"],
     value |-> [g \in GPIONums |-> 0],
     files |-> << >>,
     interest |-> << >>,
     ready |-> << >>]

\* init(): the map is made, EpollCreate1 runs (its error is only printed),
\* isr() makes the channel and starts the router, the SIGINT goroutine waits
Init ==
    /\ pins = << >>
    /\ released = {}
    /\ fileDescriptorMap = << >>
    /\ epollFd \in {EpollFd, Invalid}
    /\ epollEvent = 0
    /\ epollEvents = << >>
    /\ kernel = KernelInit
    /\ interruptStream = << >>
    /\ router = RouterAt("wait", 0, 0)
    /\ caller = [t \in Tasks |-> IdleCaller]
    /\ lastCall = NoCall
    /\ handler = [pc |-> "idle", toVisit |-> {}, visited |-> {}, walked |-> {}]
    /\ proc = "running"
    /\ nReports = 0

\* pins whose pointer InitPin has returned to a caller
Returned ==
    {p \in PinIds : \A t \in Tasks : ~(caller[t].pc = "init_map" /\ caller[t].pin = p)}

CanCall(t) == proc = "running" /\ caller[t].pc = "idle"

(* ------------------------------- InitPin ------------------------------- *)
\* lines 90-142: stat/export, direction, edge, open.  `fail` names the OS
\* call that reports an I/O error, if any ("none": only the kernel's own
\* refusals, such as a direction it does not know).
InitPin(t, gpioNum, direction, fail) ==
    /\ CanCall(t)
    /\ Len(pins) < MaxPins
    /\ LET needExport == gpioNum \notin kernel.exported
           exportErr  == needExport /\ fail = "export"
           k1 == IF needExport /\ ~exportErr THEN KExport(kernel, gpioNum) ELSE kernel
           dirErr == fail = "direction" \/ direction \notin {"in", "out"}
           k2 == IF exportErr \/ dirErr THEN k1 ELSE KDirection(k1, gpioNum, direction)
           wantEdge == direction = "in"
           edgeErr == wantEdge /\ fail = "edge"
           k3 == IF exportErr \/ dirErr \/ ~wantEdge \/ edgeErr THEN k2
                 ELSE KEdge(k2, gpioNum, "rising")
           openErr == fail = "open"
           err == exportErr \/ dirErr \/ edgeErr \/ openErr
           fd == LowestFreeFd(k3)
           pin == [GPIONum |-> gpioNum, Direction |-> direction,
                   TriggerEdge |-> "rising", SysfsFile |-> fd, Enabled |-> TRUE]
       IN  IF err
           THEN /\ kernel' = k3
                /\ lastCall' = [NoCall EXCEPT !.op = "InitPin", !.err = TRUE]
                /\ UNCHANGED <<pins, caller>>
           ELSE /\ kernel' = KOpen(k3, gpioNum, direction = "out")
                /\ pins' = Append(pins, pin)
                /\ caller' = [caller EXCEPT ![t] = [pc |-> "init_map", pin |-> Len(pins) + 1]]
                /\ UNCHANGED lastCall
    /\ UNCHANGED <<released, fileDescriptorMap, epollFd, epollEvent, epollEvents,
                   interruptStream, router, handler, proc, nReports>>

\* lines 144-147: fileDescriptorMap[int32(pin.SysfsFile.Fd())] = &pin; return
InitPinRegister(t) ==
    /\ proc = "running"
    /\ caller[t].pc = "init_map"
    /\ LET p == caller[t].pin IN
        /\ fileDescriptorMap' = Put(fileDescriptorMap, pins[p].SysfsFile, p)
        /\ lastCall' = [NoCall EXCEPT !.op = "InitPin"]
    /\ caller' = [caller EXCEPT ![t] = IdleCaller]
    /\ UNCHANGED <<pins, released, epollFd, epollEvent, epollEvents, kernel,
                   interruptStream, router, handler, proc, nReports>>

(* ---------------------------- SetTriggerEdge --------------------------- *)
\* ValidEdge with "none" forgotten
ValidEdgeNoNone(triggerEdge) ==
    triggerEdge = "rising" \/ triggerEdge = "falling" \/ triggerEdge = "both"

ValidEdge(triggerEdge) ==
    triggerEdge = "rising" \/ triggerEdge = "falling" \/ triggerEdge = "both"
        \/ triggerEdge = "none"

\* lines 151-168
SetTriggerEdge(t, p, triggerEdge, fail) ==
    /\ CanCall(t)
    /\ p \in Returned
    /\ LET g == pins[p].GPIONum
           writeErr == fail = "edge" \/ g \notin kernel.exported
       IN  IF ValidEdge(triggerEdge)
           THEN /\ pins' = [pins EXCEPT ![p].TriggerEdge = triggerEdge]
                /\ kernel' = IF writeErr THEN kernel ELSE KEdge(kernel, g, triggerEdge)
                /\ lastCall' = [NoCall EXCEPT !.op = "SetTriggerEdge", !.err = writeErr,
                                              !.accessed = TRUE]
           ELSE /\ lastCall' = [NoCall EXCEPT !.op = "SetTriggerEdge", !.err = TRUE]
                /\ UNCHANGED <<pins, kernel>>
    /\ UNCHANGED <<released, fileDescriptorMap, epollFd, epollEvent, epollEvents,
                   interruptStream, router, caller, handler, proc, nReports>>

(* ------------------------------ ReleasePin ----------------------------- *)
\* line 178: the direction write fails on an I/O error or when gpioN is gone
ReleaseDirErr(k, ps, p, fail) ==
    fail = "direction" \/ ps[p].GPIONum \notin k.exported

\* line 184: Close fails on a file already closed, or on an I/O error
ReleaseCloseErr(k, ps, p, fail) ==
    fail = "close" \/ ps[p].SysfsFile = Invalid

\* line 195
ReleaseUnexportErr(k, ps, p, fail) ==
    fail = "unexport"

\* the error ReleasePin returns (lines 179-198)
ReleaseErr(k, ps, p, fail) ==
    \/ ReleaseDirErr(k, ps, p, fail)
    \/ ReleaseCloseErr(k, ps, p, fail)
    \/ ReleaseUnexportErr(k, ps, p, fail)

\* ReleasePins with line 175 moved behind the direction write's early return
ReleasePinsLate(k, ps, p, fail) ==
    IF ReleaseDirErr(k, ps, p, fail) THEN [ps EXCEPT ![p].Direction = "in"]
    ELSE [ps EXCEPT ![p].Direction = "in", ![p].Enabled = FALSE,
                    ![p].SysfsFile = Invalid]

\* lines 174-175 and 184: the struct after ReleasePin.  Close is reached only
\* when the direction write succeeded; it frees the descriptor even when it
\* reports an error.
ReleasePins(k, ps, p, fail) ==
    LET ps1 == [ps EXCEPT ![p].Direction = "in", ![p].Enabled = FALSE] IN
    IF ReleaseDirErr(k, ps, p, fail) THEN ps1
    ELSE [ps1 EXCEPT ![p].SysfsFile = Invalid]

\* lines 176-198: what ReleasePin does to the kernel, with its early returns
ReleaseKernel(k, ps, p, fail) ==
    LET g  == ps[p].GPIONum
        fd == ps[p].SysfsFile
        k1 == KDirection(k, g, "in")
        k2 == IF fd = Invalid THEN k1 ELSE KClose(k1, fd)
    IN  IF ReleaseDirErr(k, ps, p, fail) THEN k
        ELSE IF ReleaseCloseErr(k, ps, p, fail) THEN k2
        ELSE IF ReleaseUnexportErr(k, ps, p, fail) THEN k2
        ELSE KUnexport(k2, g)

\* lines 171-201, called from a caller's goroutine
ReleasePin(t, p, fail) ==
    /\ CanCall(t)
    /\ p \in Returned
    /\ pins' = ReleasePins(kernel, pins, p, fail)
    /\ kernel' = ReleaseKernel(kernel, pins, p, fail)
    /\ released' = released \cup {p}
    /\ lastCall' = [NoCall EXCEPT !.op = "ReleasePin",
                                  !.err = ReleaseErr(kernel, pins, p, fail)]
    /\ UNCHANGED <<fileDescriptorMap, epollFd, epollEvent, epollEvents,
                   interruptStream, router, caller, handler, proc, nReports>>

(* ------------------------- SetHigh / SetLow / Read --------------------- *)
\* pin.SysfsFile.Write of one byte: needs a file opened O_RDWR on a gpio that
\* is still there and is an output
WriteErr(k, fd, fail) ==
    \/ fail = "io"
    \/ ~KUsable(k, fd)
    \/ ~k.files[fd].rw
    \/ k.direction[k.files[fd].gpio] # "out"

\* lines 204-223: SetHigh writes "1", SetLow writes "0", only when Enabled
SetLevel(t, p, op, level, fail) ==
    /\ CanCall(t)
    /\ p \in Returned
    /\ LET fd == pins[p].SysfsFile
           e  == WriteErr(kernel, fd, fail)
       IN  IF pins[p].Enabled
           THEN /\ kernel' = IF e THEN kernel
                             ELSE [kernel EXCEPT !.value[kernel.files[fd].gpio] = level]
                /\ lastCall' = [NoCall EXCEPT !.op = op, !.err = e, !.accessed = TRUE,
                                              !.released = p \in released]
           ELSE /\ kernel' = kernel
                /\ lastCall' = [NoCall EXCEPT !.op = op, !.released = p \in released]
    /\ UNCHANGED <<pins, released, fileDescriptorMap, epollFd, epollEvent, epollEvents,
                   interruptStream, router, caller, handler, proc, nReports>>

SetHigh(t, p, fail) == SetLevel(t, p, "SetHigh", 1, fail)

SetLow(t, p, fail) == SetLevel(t, p, "SetLow", 0, fail)

\* lines 228-236: Seek(0,0), Read one byte, state = byte & 1
ReadValue(k, fd, fail) ==
    IF fail = "io" \/ ~KUsable(k, fd)
    THEN [state |-> -1, err |-> TRUE]
    ELSE [state |-> KValueByte(k, fd) % 2, err |-> FALSE]

\* lines 226-240: what Read returns, and whether it touched the value file
ReadResult(k, pin, fail) ==
    IF pin.Enabled
    THEN [state |-> ReadValue(k, pin.SysfsFile, fail).state,
          err |-> ReadValue(k, pin.SysfsFile, fail).err, accessed |-> TRUE]
    ELSE [state |-> -1, err |-> FALSE, accessed |-> FALSE]

\* lines 226-240, called from a caller's goroutine
Read(t, p, fail) ==
    /\ CanCall(t)
    /\ p \in Returned
    /\ LET r == ReadResult(kernel, pins[p], fail) IN
        lastCall' = [NoCall EXCEPT !.op = "Read", !.err = r.err, !.ret = r.state,
                                   !.accessed = r.accessed,
                                   !.released = p \in released]
    /\ UNCHANGED <<pins, released, fileDescriptorMap, epollFd, epollEvent, epollEvents,
                   kernel, interruptStream, router, caller, handler, proc, nReports>>

(* ------------------ AddPinInterrupt / DeletePinInterrupt --------------- *)
\* lines 244-248: fill the shared scratch record
AddPinInterruptFill(t, p) ==
    /\ CanCall(t)
    /\ p \in Returned
    /\ epollEvent' = pins[p].SysfsFile
    /\ caller' = [caller EXCEPT ![t] = [pc |-> "add_ctl", pin |-> p]]
    /\ UNCHANGED <<pins, released, fileDescriptorMap, epollFd, epollEvents, kernel,
                   interruptStream, router, lastCall, handler, proc, nReports>>

\* CtlAddErr without the kernel's EEXIST
CtlAddErrAgain(k, fd, fail) ==
    \/ fail = "ctl"
    \/ epollFd = Invalid
    \/ fd \notin DOMAIN k.files

\* EPOLL_CTL_ADD: EBADF on a bad epoll or target descriptor, EEXIST when the
\* descriptor is registered already
CtlAddErr(k, fd, fail) ==
    \/ fail = "ctl"
    \/ epollFd = Invalid
    \/ fd \notin DOMAIN k.files
    \/ fd \in DOMAIN k.interest

\* lines 249-255: EpollCtl(ADD, fd, &epollData.event).  A sysfs attribute always
\* polls readable, so a fresh registration is ready at once.
AddPinInterruptCtl(t, limit, fail) ==
    /\ proc = "running"
    /\ caller[t].pc = "add_ctl"
    /\ nReports < limit
    /\ LET p  == caller[t].pin
           fd == pins[p].SysfsFile
           e  == CtlAddErr(kernel, fd, fail)
       IN  /\ kernel' = IF e THEN kernel
                        ELSE [kernel EXCEPT !.interest = Put(@, fd, epollEvent),
                                            !.ready = Append(@, fd)]
           /\ nReports' = IF e THEN nReports ELSE nReports + 1
           /\ lastCall' = [NoCall EXCEPT !.op = "AddPinInterrupt", !.err = e]
    /\ caller' = [caller EXCEPT ![t] = IdleCaller]
    /\ UNCHANGED <<pins, released, fileDescriptorMap, epollFd, epollEvent, epollEvents,
                   interruptStream, router, handler, proc>>

\* lines 262-266
DeletePinInterruptFill(t, p) ==
    /\ CanCall(t)
    /\ p \in Returned
    /\ epollEvent' = pins[p].SysfsFile
    /\ caller' = [caller EXCEPT ![t] = [pc |-> "del_ctl", pin |-> p]]
    /\ UNCHANGED <<pins, released, fileDescriptorMap, epollFd, epollEvents, kernel,
                   interruptStream, router, lastCall, handler, proc, nReports>>

\* EPOLL_CTL_DEL: EBADF on a bad descriptor, ENOENT when it is not registered
CtlDelErr(k, fd, fail) ==
    \/ fail = "ctl"
    \/ epollFd = Invalid
    \/ fd \notin DOMAIN k.files
    \/ fd \notin DOMAIN k.interest

\* lines 267-275
DeletePinInterruptCtl(t, fail) ==
    /\ proc = "running"
    /\ caller[t].pc = "del_ctl"
    /\ LET p  == caller[t].pin
           fd == pins[p].SysfsFile
           e  == CtlDelErr(kernel, fd, fail)
       IN  /\ kernel' = IF e THEN kernel
                        ELSE [kernel EXCEPT !.interest = Remove(@, fd),
                                            !.ready = Without(@, fd)]
           /\ lastCall' = [NoCall EXCEPT !.op = "DeletePinInterrupt", !.err = e]
    /\ caller' = [caller EXCEPT ![t] = IdleCaller]
    /\ UNCHANGED <<pins, released, fileDescriptorMap, epollFd, epollEvent, epollEvents,
                   interruptStream, router, handler, proc, nReports>>

(* ------------------------- the line changes level ---------------------- *)
\* the level change is one the gpio's edge setting asks an interrupt for
EdgeFires(e, new) ==
    \/ e = "both"
    \/ e = "rising" /\ new = 1
    \/ e = "falling" /\ new = 0

\* registered descriptors a notification on gpio g makes ready
Woken(k, g) ==
    {f \in DOMAIN k.interest :
        k.files[f].gpio = g /\ ~k.files[f].stale /\ ~InSeq(k.ready, f)}

RECURSIVE Ascending(_)
Ascending(S) ==
    IF S = {} THEN << >>
    ELSE LET m == CHOOSE x \in S : \A y \in S : x <= y
         IN  <<m>> \o Ascending(S \ {m})

\* An input line exported in sysfs flips.  When the kernel's edge setting
\* matches, sysfs_notify makes every descriptor registered on the value file
\* ready (edge-triggered: once, until the next wait collects it).
Transition(g, limit) ==
    /\ proc = "running"
    /\ g \in kernel.exported
    /\ kernel.direction[g] = "in"
    /\ LET new   == 1 - kernel.value[g]
           fires == EdgeFires(kernel.edge[g], new) /\ Woken(kernel, g) # {}
       IN  /\ fires => nReports < limit
           /\ kernel' = [kernel EXCEPT
                            !.value = [@ EXCEPT ![g] = new],
                            !.ready = IF fires THEN @ \o Ascending(Woken(kernel, g))
                                      ELSE @]
           /\ nReports' = IF fires THEN nReports + 1 ELSE nReports
    /\ UNCHANGED <<pins, released, fileDescriptorMap, epollFd, epollEvent, epollEvents,
                   interruptStream, router, caller, lastCall, handler, proc>>

(* --------------------------- isr(): the router -------------------------- *)
Min(a, b) == IF a < b THEN a ELSE b

\* line 303, success: the kernel copies the data of up to MaxPollEvents ready
\* descriptors into epollData.events and returns their number
EpollWaitReturn ==
    /\ proc = "running"
    /\ router.pc = "wait"
    /\ epollFd # Invalid
    /\ kernel.ready # << >>
    /\ LET n     == Min(Len(kernel.ready), MaxPollEvents)
           batch == [i \in 1..n |-> kernel.interest[kernel.ready[i]]]
       IN  /\ epollEvents' = batch \o SubSeq(epollEvents, n + 1, Len(epollEvents))
           /\ kernel' = [kernel EXCEPT !.ready = SubSeq(@, n + 1, Len(@))]
           /\ router' = RouterAt("loop", n, 0)
    /\ UNCHANGED <<pins, released, fileDescriptorMap, epollFd, epollEvent,
                   interruptStream, caller, lastCall, handler, proc, nReports>>

\* EpollWaitError with the loop walking what the buffer still holds
EpollWaitErrorStale ==
    /\ proc = "running"
    /\ router.pc = "wait"
    /\ router' = RouterAt("loop", Len(epollEvents), 0)
    /\ UNCHANGED <<pins, released, fileDescriptorMap, epollFd, epollEvent, epollEvents,
                   kernel, interruptStream, caller, lastCall, handler, proc, nReports>>

\* lines 303-309, failure: EBADF when epollData.fd is no epoll descriptor,
\* EINTR when a signal interrupts the wait.  numEvents is -1, the error is
\* printed, and the for loop below runs zero times.
EpollWaitError ==
    /\ proc = "running"
    /\ router.pc = "wait"
    /\ router' = RouterAt("loop", -1, 0)
    /\ UNCHANGED <<pins, released, fileDescriptorMap, epollFd, epollEvent, epollEvents,
                   kernel, interruptStream, caller, lastCall, handler, proc, nReports>>

\* line 310, loop condition false: back to EpollWait
LoopExit ==
    /\ proc = "running"
    /\ router.pc = "loop"
    /\ ~(router.ev < router.numEvents)
    /\ router' = RouterAt("wait", 0, 0)
    /\ UNCHANGED <<pins, released, fileDescriptorMap, epollFd, epollEvent, epollEvents,
                   kernel, interruptStream, caller, lastCall, handler, proc, nReports>>

\* line 311: a Go map read of a missing key yields nil
Lookup(m, fd) == IF fd \in DOMAIN m THEN m[fd] ELSE Nil

\* Derive with the two fixed levels swapped
DeriveSwapped(pin) ==
    LET edge == pin.TriggerEdge IN
    IF edge = "rising"
        THEN [edge |-> edge, stateString |-> "low", stateInt |-> 0, pc |-> "send"]
    ELSE IF edge = "falling"
        THEN [edge |-> edge, stateString |-> "high", stateInt |-> 1, pc |-> "send"]
    ELSE IF edge = "both"
        THEN IF pin.Enabled
             THEN [edge |-> edge, stateString |-> "", stateInt |-> 0, pc |-> "read"]
             ELSE [edge |-> edge, stateString |-> "", stateInt |-> -1, pc |-> "send"]
    ELSE [edge |-> edge, stateString |-> "", stateInt |-> 0, pc |-> "send"]

\* lines 319-333 with Read's check of Enabled (line 227): the locals after the
\* if-chain, and whether Read still has to touch the value file
Derive(pin) ==
    LET edge == pin.TriggerEdge IN
    IF edge = "rising"
        THEN [edge |-> edge, stateString |-> "high", stateInt |-> 1, pc |-> "send"]
    ELSE IF edge = "falling"
        THEN [edge |-> edge, stateString |-> "low", stateInt |-> 0, pc |-> "send"]
    ELSE IF edge = "both"
        THEN IF pin.Enabled
             THEN [edge |-> edge, stateString |-> "", stateInt |-> 0, pc |-> "read"]
             ELSE [edge |-> edge, stateString |-> "", stateInt |-> -1, pc |-> "send"]
    ELSE [edge |-> edge, stateString |-> "", stateInt |-> 0, pc |-> "send"]

\* lines 310-333: resolve the ready descriptor and derive the event.  A nil
\* ioPin is dereferenced at line 315: the goroutine panics, the process dies.
Dispatch ==
    /\ proc = "running"
    /\ router.pc = "loop"
    /\ router.ev < router.numEvents
    /\ LET ioPin == Lookup(fileDescriptorMap, epollEvents[router.ev + 1]) IN
        IF ioPin = Nil
        THEN /\ proc' = "panicked"
             /\ router' = [router EXCEPT !.pc = "panic"]
        ELSE /\ proc' = proc
             /\ LET d == Derive(pins[ioPin]) IN
                 router' = [router EXCEPT !.pc = d.pc, !.ioPin = ioPin, !.edge = d.edge,
                               !.stateString = d.stateString, !.stateInt = d.stateInt]
    /\ UNCHANGED <<pins, released, fileDescriptorMap, epollFd, epollEvent, epollEvents,
                   kernel, interruptStream, caller, lastCall, handler, nReports>>

\* lines 327-331
StateLabel(stateInt) ==
    IF stateInt = 0 THEN "low" ELSE IF stateInt = 1 THEN "high" ELSE ""

\* lines 326 and 230-236: Read's Seek and Read on the value file, its error
\* dropped by the router
DispatchRead(fail) ==
    /\ proc = "running"
    /\ router.pc = "read"
    /\ LET r == ReadValue(kernel, pins[router.ioPin].SysfsFile, fail) IN
        router' = [router EXCEPT !.pc = "send", !.stateInt = r.state,
                      !.stateString = StateLabel(r.state), !.didRead = TRUE]
    /\ UNCHANGED <<pins, released, fileDescriptorMap, epollFd, epollEvent, epollEvents,
                   kernel, interruptStream, caller, lastCall, handler, proc, nReports>>

\* lines 336-338: the guarded send
\* Send without the select's default branch taken on a full channel
SendUnbounded(stream, data) == Append(stream, data)

\* Send putting the event at the head of the channel
SendFront(stream, data) ==
    IF Len(stream) # MaxPollEvents THEN <<data>> \o stream ELSE stream

\* lines 335-339: select { case interruptStream <- data: default: }
Send(stream, data) ==
    IF Len(stream) # MaxPollEvents THEN Append(stream, data) ELSE stream

\* Enqueue as a plain channel send, which waits for room
EnqueueBlocking ==
    /\ proc = "running"
    /\ router.pc = "send"
    /\ Len(interruptStream) < MaxPollEvents
    /\ interruptStream' =
          Append(interruptStream,
                 [IOPin |-> router.ioPin, Edge |-> router.edge,
                  StateString |-> router.stateString, StateInt |-> router.stateInt])
    /\ router' = RouterAt("loop", router.numEvents, router.ev + 1)
    /\ UNCHANGED <<pins, released, fileDescriptorMap, epollFd, epollEvent, epollEvents,
                   kernel, caller, lastCall, handler, proc, nReports>>

\* lines 335-339 and the loop's ev++
Enqueue ==
    /\ proc = "running"
    /\ router.pc = "send"
    /\ interruptStream' =
          Send(interruptStream,
               [IOPin |-> router.ioPin, Edge |-> router.edge,
                StateString |-> router.stateString, StateInt |-> router.stateInt])
    /\ router' = RouterAt("loop", router.numEvents, router.ev + 1)
    /\ UNCHANGED <<pins, released, fileDescriptorMap, epollFd, epollEvent, epollEvents,
                   kernel, caller, lastCall, handler, proc, nReports>>

\* a consumer receives from GetInterruptStream()
Consume ==
    /\ proc = "running"
    /\ interruptStream # << >>
    /\ interruptStream' = Tail(interruptStream)
    /\ UNCHANGED <<pins, released, fileDescriptorMap, epollFd, epollEvent, epollEvents,
                   kernel, router, caller, lastCall, handler, proc, nReports>>

(* ------------------------ init(): the SIGINT goroutine ------------------ *)
\* line 364: a signal arrives on c
Signal ==
    /\ proc = "running"
    /\ handler.pc = "idle"
    /\ handler' = [handler EXCEPT !.pc = "walk", !.toVisit = DOMAIN fileDescriptorMap]
    /\ UNCHANGED <<pins, released, fileDescriptorMap, epollFd, epollEvent, epollEvents,
                   kernel, interruptStream, router, caller, lastCall, proc, nReports>>

\* lines 367-375: one iteration of the range over fileDescriptorMap (in Go's
\* unspecified order): Enabled = false, ReleasePin, the error only printed
WalkStep(fd, fail) ==
    /\ proc = "running"
    /\ handler.pc = "walk"
    /\ fd \in DOMAIN fileDescriptorMap \ handler.visited
    /\ LET p   == fileDescriptorMap[fd]
           ps1 == [pins EXCEPT ![p].Enabled = FALSE]
       IN  /\ pins' = ReleasePins(kernel, ps1, p, fail)
           /\ kernel' = ReleaseKernel(kernel, ps1, p, fail)
           /\ released' = released \cup {p}
    /\ handler' = [handler EXCEPT !.visited = @ \cup {fd},
                                   !.walked = @ \cup {fileDescriptorMap[fd]}]
    /\ UNCHANGED <<fileDescriptorMap, epollFd, epollEvent, epollEvents,
                   interruptStream, router, caller, lastCall, proc, nReports>>

\* lines 377-379: the range is over, os.Exit(1).  Keys inserted while the range
\* runs may or may not be visited.
HandlerExit ==
    /\ proc = "running"
    /\ handler.pc = "walk"
    /\ handler.toVisit \subseteq handler.visited
    /\ handler' = [handler EXCEPT !.pc = "done"]
    /\ proc' = "exited"
    /\ UNCHANGED <<pins, released, fileDescriptorMap, epollFd, epollEvent, epollEvents,
                   kernel, interruptStream, router, caller, lastCall, nReports>>

(* ---------------------------- specifications --------------------------- *)
ReleaseFails == {"none", "direction", "close", "unexport"}

\* acquisition, in any direction, on any gpio
Acquire(t) ==
    \/ \E g \in GPIONums, d \in DirInputs : InitPin(t, g, d, "none")
    \/ InitPinRegister(t)

Release(t) == \E p \in PinIds, f \in ReleaseFails : ReleasePin(t, p, f)

Configure(t) ==
    \E p \in PinIds, e \in EdgeInputs, f \in {"none", "edge"} : SetTriggerEdge(t, p, e, f)

ValueCalls(t) ==
    \/ \E p \in PinIds, f \in {"none", "io"} : SetHigh(t, p, f)
    \/ \E p \in PinIds, f \in {"none", "io"} : SetLow(t, p, f)
    \/ \E p \in PinIds, f \in {"none", "io"} : Read(t, p, f)

Register(t, limit) ==
    \/ \E p \in PinIds : AddPinInterruptFill(t, p)
    \/ \E f \in {"none", "ctl"} : AddPinInterruptCtl(t, limit, f)
    \/ \E p \in PinIds : DeletePinInterruptFill(t, p)
    \/ \E f \in {"none", "ctl"} : DeletePinInterruptCtl(t, f)

RouterStep ==
    \/ EpollWaitReturn
    \/ EpollWaitError
    \/ LoopExit
    \/ Dispatch
    \/ \E f \in {"none", "io"} : DispatchRead(f)
    \/ Enqueue

HandlerStep ==
    \/ Signal
    \/ \E fd \in FdSpace, f \in ReleaseFails : WalkStep(fd, f)
    \/ HandlerExit

\* The pin life cycle driven from one goroutine, with the SIGINT handler.
Next ==
    \/ Acquire("main")
    \/ Release("main")
    \/ ValueCalls("main")
    \/ \E g \in GPIONums : Transition(g, MaxReports)
    \/ HandlerStep

Spec == Init /\ [][Next]_vars

FirstGpio == CHOOSE g \in GPIONums : \A h \in GPIONums : g <= h

\* One input pin, its trigger edge, its epoll registration and the router.
RouterNext ==
    \/ Len(pins) = 0 /\ InitPin("main", FirstGpio, "in", "none")
    \/ InitPinRegister("main")
    \/ Configure("main")
    \/ \E p \in PinIds : AddPinInterruptFill("main", p)
    \/ \E f \in {"none", "ctl"} : AddPinInterruptCtl("main", MaxReports, f)
    \/ \E p \in PinIds, f \in {"none", "direction"} : ReleasePin("main", p, f)
    \/ Transition(FirstGpio, MaxReports)
    \/ RouterStep

RouterSpec == Init /\ [][RouterNext]_vars

\* One input pin whose line keeps flipping while nobody receives from the
\* stream: the channel fills up.
FullNext ==
    \/ Len(pins) = 0 /\ InitPin("main", FirstGpio, "in", "none")
    \/ InitPinRegister("main")
    \/ \E p \in PinIds : AddPinInterruptFill("main", p)
    \/ AddPinInterruptCtl("main", FullReports, "none")
    \/ Transition(FirstGpio, FullReports)
    \/ EpollWaitReturn
    \/ EpollWaitError
    \/ LoopExit
    \/ Dispatch
    \/ Enqueue

FullSpec == Init /\ [][FullNext]_vars

\* The router's goroutine keeps being scheduled, and a wait on an epoll
\* instance with ready descriptors is not interrupted for ever.
FullFairSpec ==
    /\ FullSpec
    /\ WF_vars(LoopExit) /\ WF_vars(Dispatch) /\ WF_vars(Enqueue)
    /\ SF_vars(EpollWaitReturn)

\* Two goroutines of the caller register interrupts at the same time.
RaceNext ==
    \/ \E g \in GPIONums :
          /\ \A p \in PinIds : pins[p].GPIONum < g
          /\ InitPin("main", g, "in", "none")
    \/ InitPinRegister("main")
    \/ \E p \in PinIds : ReleasePin("main", p, "none")
    \/ \E t \in Tasks, p \in PinIds : AddPinInterruptFill(t, p)
    \/ \E t \in Tasks : AddPinInterruptCtl(t, MaxReports, "none")
    \/ \E g \in GPIONums : Transition(g, MaxReports)
    \/ EpollWaitReturn
    \/ EpollWaitError
    \/ LoopExit
    \/ Dispatch
    \/ Enqueue

RaceSpec == Init /\ [][RaceNext]_vars

\* Two input pins on two lines, both registered: one wait can return both.
BatchNext ==
    \/ \E g \in GPIONums :
          /\ \A p \in PinIds : pins[p].GPIONum < g
          /\ InitPin("main", g, "in", "none")
    \/ InitPinRegister("main")
    \/ \E p \in PinIds : AddPinInterruptFill("main", p)
    \/ AddPinInterruptCtl("main", BatchReports, "none")
    \/ \E g \in GPIONums : Transition(g, BatchReports)
    \/ EpollWaitReturn
    \/ EpollWaitError
    \/ LoopExit
    \/ Dispatch
    \/ Enqueue

BatchSpec == Init /\ [][BatchNext]_vars

\* The router's goroutine keeps being scheduled, and a wait on an epoll
\* instance with ready descriptors is not interrupted for ever.
BatchFairSpec ==
    /\ BatchSpec
    /\ WF_vars(LoopExit) /\ WF_vars(Dispatch) /\ WF_vars(Enqueue)
    /\ SF_vars(EpollWaitReturn)

\* One goroutine acquires, registers and releases pins while the router
\* runs: a descriptor number freed by ReleasePin is handed out again.
ReuseNext ==
    \/ \E g \in GPIONums :
          /\ \A p \in PinIds : pins[p].GPIONum < g
          /\ InitPin("main", g, "in", "none")
    \/ InitPinRegister("main")
    \/ \E p \in PinIds : ReleasePin("main", p, "none")
    \/ \E p \in PinIds : AddPinInterruptFill("main", p)
    \/ AddPinInterruptCtl("main", MaxReports, "none")
    \/ \E g \in GPIONums : Transition(g, MaxReports)
    \/ EpollWaitReturn
    \/ EpollWaitError
    \/ LoopExit
    \/ Dispatch
    \/ Enqueue

ReuseSpec == Init /\ [][ReuseNext]_vars

\* The router's goroutine is scheduled as long as it can run.
FairSpec == RouterSpec /\ WF_vars(RouterStep)

(* ============================== the claims ============================= *)

\* C2: when the shutdown handler has finished its walk, every pin the walk
\* visited has Enabled = false and its value file closed, also a pin whose
\* release reported a failure.
C2_WalkClosesEveryPin ==
    handler.pc = "done" =>
        \A p \in handler.walked : ~pins[p].Enabled /\ pins[p].SysfsFile = Invalid

\* C8: in every state and for every pin, the value file is open if and only
\* if Enabled is true.
C8_OpenIffEnabled ==
    \A p \in PinIds : (pins[p].SysfsFile # Invalid) <=> pins[p].Enabled

\* C9: a Read, SetHigh or SetLow on a pin that ReleasePin or the shutdown walk
\* has been run on issues no OS call on the value file and returns the
\* disabled result: Read -1 with a nil error, SetHigh and SetLow nil.
C9_ReleasedPinCallsAreNoOps ==
    (lastCall.op \in {"Read", "SetHigh", "SetLow"} /\ lastCall.released) =>
        /\ ~lastCall.accessed
        /\ ~lastCall.err
        /\ lastCall.ret = IF lastCall.op = "Read" THEN -1 ELSE 0

\* a Read has just returned the disabled result on a pin whose release had
\* failed at the direction write, leaving the file open
C9_Witness ==
    /\ lastCall.op = "Read" /\ lastCall.released /\ lastCall.ret = -1
    /\ \E p \in released : pins[p].SysfsFile # Invalid

\* the router has resolved a descriptor and derived the locals of its event
DispatchStep == router.pc = "loop" /\ router'.pc \in {"send", "read"}

\* the router has executed its send statement
SendStep == router.pc = "send" /\ router'.pc # "send"

Event(pin, edge, stateString, stateInt) ==
    [IOPin |-> pin, Edge |-> edge, StateString |-> stateString, StateInt |-> stateInt]

\* C3: the router enqueues nothing for a ready resource whose pin's trigger
\* edge is "none": no event on the stream carries that edge.
C3_NoEventForNone ==
    \A i \in 1..Len(interruptStream) : interruptStream[i].Edge # "none"

\* C4: when the router dispatches a ready resource whose pin is configured
\* "rising" it derives high/1, for "falling" low/0, with the pin's edge and
\* without touching the value file; that is the event it then sends.
C4_FixedLevelForRisingFalling ==
    [][/\ DispatchStep =>
            LET edge == pins[router'.ioPin].TriggerEdge IN
            /\ edge = "rising" =>
                 /\ router'.pc = "send" /\ router'.edge = "rising"
                 /\ router'.stateString = "high" /\ router'.stateInt = 1
                 /\ ~router'.didRead /\ kernel' = kernel
            /\ edge = "falling" =>
                 /\ router'.pc = "send" /\ router'.edge = "falling"
                 /\ router'.stateString = "low" /\ router'.stateInt = 0
                 /\ ~router'.didRead /\ kernel' = kernel
       /\ (SendStep /\ router.edge \in {"rising", "falling"}) =>
            /\ ~router.didRead
            /\ Len(interruptStream) < MaxPollEvents =>
                 interruptStream' =
                   Append(interruptStream,
                          Event(router.ioPin, router.edge,
                                IF router.edge = "rising" THEN "high" ELSE "low",
                                IF router.edge = "rising" THEN 1 ELSE 0))
      ]_vars

\* a falling event is about to be sent behind a rising one
C4_Witness ==
    /\ router.pc = "send" /\ router.edge = "falling" /\ router.stateString = "low"
    /\ \E i \in 1..Len(interruptStream) :
          interruptStream[i] = Event(router.ioPin, "rising", "high", 1)

\* C5: for every ready resource whose pin is configured "both" the router
\* reads the value file afresh, and the event is both/high/1 when it read 1
\* and both/low/0 when it read 0.
C5_BothReadsValue ==
    (router.pc = "send" /\ router.edge = "both") =>
        /\ router.didRead
        /\ router.stateInt = 1 => router.stateString = "high"
        /\ router.stateInt = 0 => router.stateString = "low"

\* C10 as claimed: an invalid edge is refused with no write and no change; a
\* valid edge is stored and the call succeeds.
C10_ValidEdgeAlwaysSucceeds ==
    [][\A p \in PinIds, e \in EdgeInputs, f \in {"none", "edge"} :
          SetTriggerEdge("main", p, e, f) =>
             IF e \in Edges
             THEN ~lastCall'.err /\ pins'[p].TriggerEdge = e
             ELSE /\ lastCall'.err /\ ~lastCall'.accessed
                  /\ pins' = pins /\ kernel' = kernel
      ]_vars

\* C10 amended: an invalid edge is refused with no write and no change; a
\* valid edge is written to the edge file, the call succeeds exactly when
\* that write does, and after a success the pin holds the new edge, which is
\* the edge the router derives events from.
C10_ValidEdgeSucceedsWithWrite ==
    [][/\ \A p \in PinIds, e \in EdgeInputs, f \in {"none", "edge"} :
            SetTriggerEdge("main", p, e, f) =>
               LET g == pins[p].GPIONum
                   written == f = "none" /\ g \in kernel.exported
               IN  IF e \in Edges
                   THEN /\ lastCall'.accessed
                        /\ lastCall'.err <=> ~written
                        /\ written => pins'[p].TriggerEdge = e /\ kernel'.edge[g] = e
                   ELSE /\ lastCall'.err /\ ~lastCall'.accessed
                        /\ pins' = pins /\ kernel' = kernel
       /\ DispatchStep => router'.edge = pins[router'.ioPin].TriggerEdge
      ]_vars

\* SetTriggerEdge has succeeded and the router has derived an event from an
\* edge that only SetTriggerEdge can have stored
C10_Witness ==
    /\ lastCall.op = "SetTriggerEdge" /\ ~lastCall.err
    /\ router.pc = "send" /\ router.edge = "both"

\* C1: a send on the stream never blocks and never makes it longer than
\* MaxPollEvents; on a full stream the event is dropped and the stream keeps
\* its contents, otherwise the event is appended.
C1_SendNeverBlocksNorOverfills ==
    [][/\ Len(interruptStream') <= MaxPollEvents
       /\ (router.pc = "send" /\ proc = "running") => ENABLED Enqueue
       /\ SendStep =>
            interruptStream' =
              IF Len(interruptStream) = MaxPollEvents
              THEN interruptStream
              ELSE Append(interruptStream,
                          Event(router.ioPin, router.edge,
                                router.stateString, router.stateInt))
      ]_vars

\* more readiness reports than the stream holds have all been dispatched, and
\* the stream is full: at least one event was dropped
C1_Witness ==
    /\ Len(interruptStream) = MaxPollEvents
    /\ nReports > MaxPollEvents
    /\ router.pc = "wait" /\ kernel.ready = << >>

\* C6: when a ready descriptor has no entry in fileDescriptorMap the router
\* skips it: it goes on with the next one, enqueues nothing and does not fail.
C6_RegistryMissIsSkipped ==
    [][(/\ proc = "running" /\ router.pc = "loop" /\ router.ev < router.numEvents
        /\ Lookup(fileDescriptorMap, epollEvents[router.ev + 1]) = Nil
        /\ router' # router) =>
            /\ proc' = "running"
            /\ router' = RouterAt("loop", router.numEvents, router.ev + 1)
            /\ interruptStream' = interruptStream
      ]_vars

\* the router has left its loop
RouterStopped == router.pc \notin {"wait", "loop", "read", "send"}

\* C7: when every wait fails (the epoll instance could not be created, each
\* EpollWait returns EBADF) the router eventually stops; it does not call
\* the wait again forever.
C7_RouterStopsWithoutEpoll == (epollFd = Invalid) ~> RouterStopped

NoDuplicates(s) == \A i, j \in 1..Len(s) : s[i] = s[j] => i = j

\* C11: AddPinInterrupt on a pin whose value file is registered already
\* returns an error and changes nothing in epoll; a descriptor is never
\* reported ready twice at once, a flip of the line adds at most one report,
\* and the stream never holds more events than reports were made.
C11_SecondAddIsRefused ==
    [][/\ \A f \in {"none", "ctl"} :
            (/\ AddPinInterruptCtl("main", MaxReports, f)
             /\ pins[caller["main"].pin].SysfsFile \in DOMAIN kernel.interest) =>
                lastCall'.err /\ kernel' = kernel
       /\ NoDuplicates(kernel'.ready)
       /\ kernel'.value # kernel.value => Len(kernel'.ready) <= Len(kernel.ready) + 1
       /\ Len(interruptStream') <= nReports'
      ]_vars

\* the pin was registered, a second AddPinInterrupt on it has failed, and the
\* registration and one flip of the line have given one event each
C11_Witness ==
    /\ lastCall.op = "AddPinInterrupt" /\ lastCall.err
    /\ \E p \in PinIds : pins[p].SysfsFile \in DOMAIN kernel.interest
    /\ nReports = 2 /\ Len(interruptStream) = 2
    /\ router.pc = "wait" /\ kernel.ready = << >>

\* the router is inside the for loop over the batch of its last wait
InBatch == router.pc \in {"loop", "read", "send"} /\ router.numEvents >= 0

\* C12: of a batch of numEvents ready descriptors the router has enqueued at
\* most numEvents events, and the events of the descriptors it is done with
\* are the last ones on the stream, in the order of the batch; whatever an
\* earlier batch enqueued lies before them.
C12_BatchOrderKept ==
    /\ Len(interruptStream) <= nReports
    /\ InBatch =>
         /\ router.ev <= router.numEvents
         /\ router.ev <= Len(interruptStream)
         /\ \A i \in 1..router.ev :
               interruptStream[Len(interruptStream) - router.ev + i].IOPin
                   = Lookup(fileDescriptorMap, epollEvents[i])

\* a batch of two different pins has been enqueued behind an earlier batch
C12_Witness ==
    /\ router.pc = "loop" /\ router.numEvents = 2 /\ router.ev = 2
    /\ Len(interruptStream) >= 3
    /\ epollEvents[1] # epollEvents[2]
    /\ interruptStream[Len(interruptStream)].IOPin
          # interruptStream[Len(interruptStream) - 1].IOPin

StreamFull == Len(interruptStream) = MaxPollEvents

\* C13: with nobody receiving from the stream the router always gets to the
\* end of its batch and back to EpollWait, and descriptors reported ready
\* while the stream is full are still collected and walked through, the
\* stream staying full.
C13_RouterNeverStalls ==
    /\ InBatch ~> (router.pc = "wait")
    /\ (StreamFull /\ kernel.ready # << >>) ~>
           (StreamFull /\ kernel.ready = << >> /\ router.pc = "wait")

\* a report made after the stream had filled up and had dropped an event has
\* been collected and walked through
C13_Witness ==
    /\ StreamFull
    /\ nReports >= MaxPollEvents + 2
    /\ router.pc = "loop" /\ router.numEvents = 1 /\ router.ev = 1
    /\ kernel.ready = << >>

\* an IOPin InitPin has handed out and entered in fileDescriptorMap, on which
\* neither ReleasePin nor the shutdown walk has run
Live(p) ==
    /\ p \in Returned /\ p \notin released
    /\ \E fd \in DOMAIN fileDescriptorMap : fileDescriptorMap[fd] = p

\* C14: no two live pins have the same GPIO number: InitPin for a number that
\* is acquired already gives no second IOPin with a map entry of its own.
C14_OnePinPerGpio ==
    \A p, q \in PinIds :
        (p # q /\ Live(p) /\ Live(q)) => pins[p].GPIONum # pins[q].GPIONum

\* C15: every event on the stream is labelled "high" with StateInt 1 or "low"
\* with StateInt 0, whatever the pin's edge and whenever the pin was released.
C15_EventsHaveLevel ==
    \A i \in 1..Len(interruptStream) :
        \/ interruptStream[i].StateString = "high" /\ interruptStream[i].StateInt = 1
        \/ interruptStream[i].StateString = "low" /\ interruptStream[i].StateInt = 0

\* C16: InitPin with a direction other than "in" and "out" returns an error
\* without any call to the OS: nothing is exported, written or opened, and no
\* IOPin or map entry is made.
C16_InvalidDirectionTouchesNothing ==
    [][\A g \in GPIONums, d \in DirInputs \ {"in", "out"} :
          InitPin("main", g, d, "none") =>
             /\ lastCall'.err
             /\ kernel' = kernel
             /\ pins' = pins /\ fileDescriptorMap' = fileDescriptorMap
      ]_vars

\* C17: the process does not exit from the SIGINT handler before the walk
\* has visited every pin of fileDescriptorMap.
C17_ExitAfterAllVisited ==
    proc = "exited" => DOMAIN fileDescriptorMap \subseteq handler.visited

\* descriptors of the current batch the router has not sent an event for yet
Remaining == IF InBatch THEN router.numEvents - router.ev ELSE 0

WaitFailed == router.pc = "loop" /\ router.numEvents < 0

\* C18: after a failed EpollWait the router dispatches nothing (every event
\* on the stream, and every one still to come, answers a report of its own:
\* none is made from what the buffer still holds), its next step is back to
\* EpollWait, and reports pending at the failure are collected by a later wait.
C18_FailedWaitIsRetried ==
    /\ [](Len(interruptStream) + Remaining + Len(kernel.ready) = nReports)
    /\ [][(WaitFailed /\ router' # router) =>
             /\ router' = RouterAt("wait", 0, 0)
             /\ interruptStream' = interruptStream]_vars
    /\ (WaitFailed /\ kernel.ready # << >>) ~> (InBatch /\ router.numEvents > 0)

\* a wait has failed with the buffer still holding the previous batch, whose
\* event is on the stream, and with a report pending
C18_Witness ==
    /\ WaitFailed
    /\ epollEvents # << >> /\ interruptStream # << >>
    /\ kernel.ready # << >>

\* C19: under every interleaving of AddPinInterrupt calls from different
\* goroutines each value file is registered with its own descriptor as epoll
\* data, the key under which isr looks a report up in fileDescriptorMap.
C19_RegisteredWithOwnDescriptor ==
    \A fd \in DOMAIN kernel.interest : kernel.interest[fd] = fd

\* a goroutine stands at the map write of InitPin (line 145)
MapWriting == \E t \in Tasks : caller[t].pc = "init_map"

\* the router stands at its map read (line 311), or the SIGINT handler is
\* inside its range over the map (line 367)
MapReading ==
    \/ router.pc = "loop" /\ router.ev < router.numEvents
    \/ handler.pc = "walk"

\* C20: a write of fileDescriptorMap by InitPin never overlaps a read of it
\* by the router's lookup or by the shutdown walk.
C20_RegistryAccessExclusive == ~(proc = "running" /\ MapWriting /\ MapReading)

\* C21: a router that has resolved a pin and seen it Enabled, and is about to
\* read its value file, finds the pin still Enabled and the file still open:
\* disabling and closing never happen in between.
C21_NoReadOfTornDownPin ==
    router.pc = "read" =>
        /\ pins[router.ioPin].Enabled
        /\ pins[router.ioPin].SysfsFile # Invalid
        /\ pins[router.ioPin].SysfsFile \in DOMAIN kernel.files

\* C22: the shutdown walk runs ReleasePin only on pins that have not been
\* released before and whose value file is still open.
C22_WalkReleasesOnce ==
    [][\A fd \in FdSpace, f \in ReleaseFails :
          WalkStep(fd, f) =>
             /\ fileDescriptorMap[fd] \notin released
             /\ pins[fileDescriptorMap[fd]].SysfsFile # Invalid
      ]_vars

\* C23: the pin the router derives an event for is the pin whose value file
\* was reported ready, that is a pin registered with epoll, or one that was
\* until it was released; never another pin that has taken over the
\* descriptor number and the map entry since the wait returned.
C23_EventForReportedPin ==
    router.pc = "send" =>
        \/ router.ioPin \in released
        \/ pins[router.ioPin].SysfsFile \in DOMAIN kernel.interest

\* C24: a SetTriggerEdge that returns an error, be it for an invalid value or
\* for a failed write to the edge file, leaves the pin's TriggerEdge as it was.
C24_FailedSetKeepsEdge ==
    [][\A p \in PinIds, e \in EdgeInputs, f \in {"none", "edge"} :
          (SetTriggerEdge("main", p, e, f) /\ lastCall'.err) =>
              pins'[p].TriggerEdge = pins[p].TriggerEdge
      ]_vars
====
